---------------------------- MODULE Spec2Model ----------------------------
(***************************************************************************)
(* basketcase: baskets of products at a store, the price history of every  *)
(* (product, store) pair, and the basket inflation index computed from it. *)
(*                                                                         *)
(* The state is the content of the database tables (models.py) plus the    *)
(* wall clock and the outcome of the last service call.  Every service     *)
(* method of services.py is one action: it runs against one session and    *)
(* ends with its commit.                                                   *)
(*                                                                         *)
(* Conventions.                                                            *)
(*  - A timestamp is a natural number read from the clock `now`.           *)
(*  - An optional value is <<>> (None) or <<v>>.                           *)
(*  - A float is modelled exactly: a price is an integer number of price   *)
(*    units and a percentage is a reduced fraction <<n, d>> with d > 0.    *)
(*    Rounding of IEEE doubles is not modelled.                            *)
(*  - A row id is the position of the row in its table (autoincrement).    *)
(***************************************************************************)
EXTENDS Integers, Sequences, FiniteSets

VARIABLES
    now,        \* datetime.now(timezone.utc)
    prices,     \* table price_history, in insertion order
    baskets,    \* table baskets, in insertion order
    items,      \* table basket_items: basket id -> its rows, in insertion order
    indices,    \* table inflation_indices, in insertion order
    lastCall,   \* the last service call: arguments, outcome, printed trace
    errors,     \* table error_logs, in insertion order
    jobs,       \* the runs of the price update job, one record per invoker
    cli,        \* the last command of the command line: exit code, output
    api         \* the KrogerAPI object: token, token_expiry, the last get_token

vars ==
    <<now, prices, baskets, items, indices, lastCall, errors, jobs, cli, api>>

---------------------------------------------------------------------------
(* Bounds of the model                                                     *)

MaxClock == 1
MaxRows == 4
MaxRuns == 1
MaxBaskets == 2
MaxPoints == 3

(* Program constants                                                       *)

MaxItems == 50
BaseIndex == 100

(* Inputs                                                                  *)

ProductIds == {1, 2}
Quantities == {0, 1, 2}
RegularPrices == {<<0>>, <<1>>, <<2>>}

---------------------------------------------------------------------------
(* Values                                                                  *)

None == <<>>
Some(v) == <<v>>
IsSome(o) == o # <<>>
Get(o) == o[1]

Abs(x) == IF x < 0 THEN 0 - x ELSE x

RECURSIVE Gcd(_, _)
Gcd(a, b) == IF b = 0 THEN a ELSE Gcd(b, a % b)

\* the exact value n / d (d # 0), reduced, with a positive denominator
Frac(n, d) ==
    LET g == Gcd(Abs(n), Abs(d))
        s == IF d < 0 THEN 0 - 1 ELSE 1
    IN  <<(s * n) \div g, (s * d) \div g>>

FracAdd(k, f) == Frac(k * f[2] + f[1], f[2])

FracSum(f, g) == Frac(f[1] * g[2] + g[1] * f[2], f[2] * g[2])

Zero == <<0, 1>>

\* the rows of a table as a set of ids
Ids(table) == DOMAIN table

---------------------------------------------------------------------------
(* The outcome of a service call, of a command, the state of a job         *)

\* op, arguments and status of the call; for calculate_basket_inflation the
\* returned (inflation, time) and, from its printed trace, the base price
\* row selected for each item (0: item skipped) and the branch taken by
\* _update_inflation_index ("created" or "updated")
NoCall ==
    [op |-> "none", basket_id |-> 0, product_id |-> 0, quantity |-> 0,
     status |-> "ok", inflation |-> None, time |-> None, base |-> <<>>,
     index |-> "none"]

Call(op, b, p, q, status) ==
    [NoCall EXCEPT !.op = op, !.basket_id = b, !.product_id = p,
                   !.quantity = q, !.status = status]

\* no command run yet
NoCommand == [command |-> "none", exit_code |-> 0, stderr |-> FALSE]

\* who runs the price update job: the weekly timer of run(), and a caller of
\* update_prices
Invokers == {"timer", "caller"}

\* no batch processed yet
NoBatch ==
    [store_id |-> 0, product_ids |-> <<>>, fetch |-> "none", via |-> "none",
     source |-> <<>>, commit |-> "none", timeout |-> 0, first |-> 0]

\* KrogerAPI.__init__: no token, no expiry, get_token not called yet
NoToken ==
    [token |-> 0, token_expiry |-> None,
     last |-> [contacted |-> FALSE, answer |-> "none", result |-> "none",
               token |-> 0]]

\* a job that is not running: pc is the position in update_prices, products
\* the (product, store) pairs read when the run started, todo the stores
\* whose batch is still to come, failed the stores whose batch ended in the
\* error handler, runs the number of runs started, last the last batch
\* processed; where a batch is followed entry by entry, data are the
\* elements of prices_data still to come and session the rows added to the
\* session and not yet committed
IdleJob ==
    [pc |-> "idle", products |-> <<>>, todo |-> {}, failed |-> {}, runs |-> 0,
     last |-> NoBatch, data |-> <<>>, session |-> <<>>]

---------------------------------------------------------------------------
Init ==
    /\ now = 0
    /\ prices = <<>>
    /\ baskets = <<>>
    /\ items = <<>>
    /\ indices = <<>>
    /\ lastCall = NoCall
    /\ errors = <<>>
    /\ jobs = [j \in Invokers |-> IdleJob]
    /\ cli = NoCommand
    /\ api = NoToken

\* time passes
Tick ==
    /\ now < MaxClock
    /\ now' = now + 1
    /\ UNCHANGED <<prices, baskets, items, indices, lastCall, errors, jobs, cli, api>>

---------------------------------------------------------------------------
(* ProductService.update_prices: one price point per entry of the price    *)
(* source's answer that carries a usable regular price.  The answer is the *)
(* list of price records of the source's interface (the shape the callers  *)
(* and their tests consume): productId, items[0].price.regular / .promo.   *)

\* `not regular_price` is true of None and of 0
Usable(entry) ==
    entry.has_items /\ IsSome(entry.regular) /\ Get(entry.regular) # 0

PriceHistory(entry, store_id, t) ==
    [product_id |-> entry.productId,
     store_id |-> store_id,
     price |-> Get(entry.regular),
     promo_price |-> IF IsSome(entry.promo) /\ Get(entry.promo) # 0
                     THEN entry.promo ELSE None,
     captured_at |-> t]

\* the price of a product in a store kept as one row that is overwritten
RECURSIVE AddPricesUpsert(_, _, _, _)
AddPricesUpsert(table, resp, store_id, t) ==
    IF resp = <<>> THEN table
    ELSE LET entry == Head(resp)
             old == {i \in DOMAIN table :
                        /\ table[i].product_id = entry.productId
                        /\ table[i].store_id = store_id}
         IN  IF ~ Usable(entry)
             THEN AddPricesUpsert(table, Tail(resp), store_id, t)
             ELSE IF old = {}
             THEN AddPricesUpsert(Append(table, PriceHistory(entry, store_id, t)),
                                  Tail(resp), store_id, t)
             ELSE AddPricesUpsert(
                      [table EXCEPT ![CHOOSE i \in old : TRUE] =
                          PriceHistory(entry, store_id, t)],
                      Tail(resp), store_id, t)

RECURSIVE AddPrices(_, _, _, _)
AddPrices(table, resp, store_id, t) ==
    IF resp = <<>> THEN table
    ELSE LET entry == Head(resp)
         IN  IF Usable(entry)
             THEN AddPrices(Append(table, PriceHistory(entry, store_id, t)),
                            Tail(resp), store_id, t)
             ELSE AddPrices(table, Tail(resp), store_id, t)

\* Two observations of one (product, store) pair never carry the same
\* timestamp: datetime.now has microsecond resolution and every observation
\* follows a round trip to the price source.
FreshTimestamps(resp, store_id, t) ==
    \A k \in DOMAIN resp :
        Usable(resp[k]) =>
            /\ \A i \in Ids(prices) :
                  ~ (/\ prices[i].product_id = resp[k].productId
                     /\ prices[i].store_id = store_id
                     /\ prices[i].captured_at = t)
            /\ \A j \in DOMAIN resp :
                  (j # k /\ Usable(resp[j])) => resp[j].productId # resp[k].productId

UpdatePrices(store_id, resp) ==
    /\ FreshTimestamps(resp, store_id, now)
    /\ prices' = AddPrices(prices, resp, store_id, now)
    /\ lastCall' = Call("update_prices", 0, 0, 0, "ok")
    /\ UNCHANGED <<now, baskets, items, indices>>

---------------------------------------------------------------------------
(* BasketService                                                           *)

CreateBasket(store_id) ==
    /\ baskets' = Append(baskets, [store_id |-> store_id, created_at |-> now,
                                   parent_basket_id |-> None])
    /\ items' = Append(items, <<>>)
    /\ lastCall' = Call("create_basket", Len(baskets) + 1, 0, 0, "ok")
    /\ UNCHANGED <<now, prices, indices>>

\* the position of the row (basket_id, product_id) in the basket, 0 if none
ItemRow(rows, product_id) ==
    IF \E k \in DOMAIN rows : rows[k].product_id = product_id
    THEN CHOOSE k \in DOMAIN rows : rows[k].product_id = product_id
    ELSE 0

\* the capacity check with > for >=
AddOutcomeOffByOne(basket_id, product_id) ==
    IF basket_id \notin Ids(baskets) THEN "not_found"
    ELSE IF Len(items[basket_id]) > MaxItems THEN "full"
    ELSE IF ItemRow(items[basket_id], product_id) # 0 THEN "updated"
    ELSE "added"

AddOutcome(basket_id, product_id) ==
    IF basket_id \notin Ids(baskets) THEN "not_found"
    ELSE IF Len(items[basket_id]) >= MaxItems THEN "full"
    ELSE IF ItemRow(items[basket_id], product_id) # 0 THEN "updated"
    ELSE "added"

\* the items of a product shared between the baskets that hold it
AddToBasketShared(basket_id, product_id, quantity) ==
    LET outcome == AddOutcome(basket_id, product_id)
    IN  /\ items' =
              CASE outcome = "updated" ->
                     [b \in DOMAIN items |->
                         [i \in DOMAIN items[b] |->
                             IF items[b][i].product_id = product_id
                             THEN [items[b][i] EXCEPT !.quantity = quantity]
                             ELSE items[b][i]]]
                [] outcome = "added" ->
                     [items EXCEPT ![basket_id] =
                         Append(@, [product_id |-> product_id,
                                    quantity |-> quantity])]
                [] OTHER -> items
        /\ lastCall' = Call("add_to_basket", basket_id, product_id, quantity,
                            outcome)
        /\ UNCHANGED <<now, prices, baskets, indices>>

AddToBasket(basket_id, product_id, quantity) ==
    LET outcome == AddOutcome(basket_id, product_id)
        k == ItemRow(items[basket_id], product_id)
    IN  /\ items' =
              CASE outcome = "updated" ->
                     [items EXCEPT ![basket_id][k].quantity = quantity]
                [] outcome = "added" ->
                     [items EXCEPT ![basket_id] =
                         Append(@, [product_id |-> product_id,
                                    quantity |-> quantity])]
                [] OTHER -> items
        /\ lastCall' = Call("add_to_basket", basket_id, product_id, quantity,
                            outcome)
        /\ UNCHANGED <<now, prices, baskets, indices>>

\* the clone's items with the default quantity of an item
CloneItemsDefaultQuantity(rows) ==
    [k \in DOMAIN rows |-> [product_id |-> rows[k].product_id, quantity |-> 1]]

\* the clone's items: one per item of the original, with its quantity
CloneItems(rows) ==
    [k \in DOMAIN rows |->
        [product_id |-> rows[k].product_id, quantity |-> rows[k].quantity]]

CloneBasket(basket_id) ==
    /\ IF basket_id \in Ids(baskets)
       THEN /\ baskets' = Append(baskets,
                              [store_id |-> baskets[basket_id].store_id,
                               created_at |-> now,
                               parent_basket_id |-> Some(basket_id)])
            /\ items' = Append(items, CloneItems(items[basket_id]))
            /\ lastCall' = Call("clone_basket", basket_id, 0, 0, "ok")
       ELSE /\ UNCHANGED <<baskets, items>>
            /\ lastCall' = Call("clone_basket", basket_id, 0, 0, "not_found")
    /\ UNCHANGED <<now, prices, indices>>

---------------------------------------------------------------------------
(* InflationService                                                        *)

\* all_prices: the rows of the basket's store for the basket's products
\* (the query orders them by captured_at, which is the insertion order)
AllPrices(basket_id) ==
    {i \in Ids(prices) :
        /\ prices[i].store_id = baskets[basket_id].store_id
        /\ \E k \in DOMAIN items[basket_id] :
              items[basket_id][k].product_id = prices[i].product_id}

ProductPrices(basket_id, product_id) ==
    {i \in AllPrices(basket_id) : prices[i].product_id = product_id}

\* first row of `rows` sorted by captured_at ascending (the sort is stable)
First(rows) ==
    CHOOSE i \in rows : \A j \in rows :
        \/ prices[i].captured_at < prices[j].captured_at
        \/ (prices[i].captured_at = prices[j].captured_at /\ i <= j)

\* first row of `rows` sorted by captured_at descending (the sort is stable)
Last(rows) ==
    CHOOSE i \in rows : \A j \in rows :
        \/ prices[i].captured_at > prices[j].captured_at
        \/ (prices[i].captured_at = prices[j].captured_at /\ i <= j)

\* the rows of the product whenever they were captured
EarliestPricesAnyTime(basket_id, product_id) ==
    ProductPrices(basket_id, product_id)

\* earliest_prices: the rows captured at or before the basket's creation
EarliestPrices(basket_id, product_id) ==
    {i \in ProductPrices(basket_id, product_id) :
        prices[i].captured_at <= baskets[basket_id].created_at}

\* base_price = earliest_prices[0] if earliest_prices else None (0: None)
BasePrice(basket_id, product_id) ==
    IF EarliestPrices(basket_id, product_id) = {} THEN 0
    ELSE First(EarliestPrices(basket_id, product_id))

\* the current price taken from the points at or before the creation
CurrentPriceAtCreation(basket_id, product_id) ==
    IF EarliestPrices(basket_id, product_id) = {} THEN 0
    ELSE Last(EarliestPrices(basket_id, product_id))

\* current_price = current_prices[0] if current_prices else None (0: None)
CurrentPrice(basket_id, product_id) ==
    IF ProductPrices(basket_id, product_id) = {} THEN 0
    ELSE Last(ProductPrices(basket_id, product_id))

\* `if not base_price or not current_price: continue`
Skipped(basket_id, product_id) ==
    \/ ProductPrices(basket_id, product_id) = {}
    \/ BasePrice(basket_id, product_id) = 0
    \/ CurrentPrice(basket_id, product_id) = 0

NewBaseDate(base_date, captured_at) ==
    IF base_date = None \/ captured_at < Get(base_date)
    THEN Some(captured_at) ELSE base_date

\* the promo price, where a point has one, taken as the current price
ItemStepPromo(basket_id, item, acc) ==
    IF Skipped(basket_id, item.product_id)
    THEN [acc EXCEPT !.base = Append(@, 0)]
    ELSE LET bp == prices[BasePrice(basket_id, item.product_id)]
             cp == prices[CurrentPrice(basket_id, item.product_id)]
             paid == IF IsSome(cp.promo_price) THEN Get(cp.promo_price)
                     ELSE cp.price
         IN  [total_base_value |->
                  acc.total_base_value + bp.price * item.quantity,
              total_current_value |->
                  acc.total_current_value + paid * item.quantity,
              base_date |-> NewBaseDate(acc.base_date, bp.captured_at),
              base |-> Append(acc.base, BasePrice(basket_id, item.product_id))]

\* one pass of the loop over basket.items
ItemStep(basket_id, item, acc) ==
    IF Skipped(basket_id, item.product_id)
    THEN [acc EXCEPT !.base = Append(@, 0)]
    ELSE LET bp == prices[BasePrice(basket_id, item.product_id)]
             cp == prices[CurrentPrice(basket_id, item.product_id)]
         IN  [total_base_value |->
                  acc.total_base_value + bp.price * item.quantity,
              total_current_value |->
                  acc.total_current_value + cp.price * item.quantity,
              base_date |-> NewBaseDate(acc.base_date, bp.captured_at),
              base |-> Append(acc.base, BasePrice(basket_id, item.product_id))]

RECURSIVE ItemLoop(_, _, _)
ItemLoop(basket_id, k, acc) ==
    IF k > Len(items[basket_id]) THEN acc
    ELSE ItemLoop(basket_id, k + 1, ItemStep(basket_id, items[basket_id][k], acc))

Totals(basket_id) ==
    ItemLoop(basket_id, 1,
             [total_base_value |-> 0, total_current_value |-> 0,
              base_date |-> None, base |-> <<>>])

\* ((total_current_value / total_base_value) - 1.0) * 100.0
Inflation(t) ==
    IF t.total_base_value = 0 THEN Zero
    ELSE Frac(100 * (t.total_current_value - t.total_base_value),
              t.total_base_value)

\* the calculation time handed over as the base date of an empty total
BaseDateIsNow(basket_id, t) ==
    IF t.total_base_value = 0 THEN now
    ELSE IF IsSome(t.base_date) THEN Get(t.base_date)
    ELSE baskets[basket_id].created_at

\* the base date handed to _update_inflation_index
BaseDate(basket_id, t) ==
    IF t.total_base_value = 0 THEN baskets[basket_id].created_at
    ELSE IF IsSome(t.base_date) THEN Get(t.base_date)
    ELSE baskets[basket_id].created_at

\* the id of the basket's first index row, 0 if it has none
IndexRow(basket_id) ==
    IF \E i \in Ids(indices) : indices[i].basket_id = basket_id
    THEN CHOOSE i \in Ids(indices) :
            /\ indices[i].basket_id = basket_id
            /\ \A j \in Ids(indices) : indices[j].basket_id = basket_id => i <= j
    ELSE 0

\* an existing record's current_index moved by the inflation, not replaced
InflationIndexAccumulating(basket_id, inflation, base_date, calculation_time) ==
    [basket_id |-> basket_id,
     base_index |-> BaseIndex,
     current_index |->
         IF IndexRow(basket_id) # 0
         THEN FracSum(indices[IndexRow(basket_id)].current_index, inflation)
         ELSE FracAdd(BaseIndex, inflation),
     base_date |-> base_date,
     calculation_time |-> calculation_time]

\* an existing record keeping its calculation time
InflationIndexStaleTime(basket_id, inflation, base_date, calculation_time) ==
    [basket_id |-> basket_id,
     base_index |-> BaseIndex,
     current_index |-> FracAdd(BaseIndex, inflation),
     base_date |-> base_date,
     calculation_time |->
         IF IndexRow(basket_id) # 0
         THEN indices[IndexRow(basket_id)].calculation_time
         ELSE calculation_time]

InflationIndex(basket_id, inflation, base_date, calculation_time) ==
    [basket_id |-> basket_id,
     base_index |-> BaseIndex,
     current_index |-> FracAdd(BaseIndex, inflation),
     base_date |-> base_date,
     calculation_time |-> calculation_time]

\* a new record on every calculation
UpdateInflationIndexInsert(basket_id, inflation, base_date, calculation_time) ==
    Append(indices,
           InflationIndex(basket_id, inflation, base_date, calculation_time))

\* the first record of the table taken for the basket's
UpdateInflationIndexFirstRow(basket_id, inflation, base_date, calculation_time) ==
    IF indices # <<>>
    THEN [indices EXCEPT ![1] =
             InflationIndex(basket_id, inflation, base_date, calculation_time)]
    ELSE Append(indices,
                InflationIndex(basket_id, inflation, base_date, calculation_time))

UpdateInflationIndex(basket_id, inflation, base_date, calculation_time) ==
    IF IndexRow(basket_id) # 0
    THEN [indices EXCEPT ![IndexRow(basket_id)] =
             InflationIndex(basket_id, inflation, base_date, calculation_time)]
    ELSE Append(indices,
                InflationIndex(basket_id, inflation, base_date, calculation_time))

\* no check for an empty basket
CalcOutcomeNoItemsCheck(basket_id) ==
    IF basket_id \notin Ids(baskets) THEN "not_found" ELSE "ok"

CalcOutcome(basket_id) ==
    IF basket_id \notin Ids(baskets) THEN "not_found"
    ELSE IF items[basket_id] = <<>> THEN "no_items"
    ELSE "ok"

CalculateBasketInflation(basket_id) ==
    LET outcome == CalcOutcome(basket_id)
        t == Totals(basket_id)
    IN  /\ indices' =
              IF outcome = "ok"
              THEN UpdateInflationIndex(basket_id, Inflation(t),
                                        BaseDate(basket_id, t), now)
              ELSE indices
        /\ lastCall' =
              IF outcome = "ok"
              THEN [Call("calculate", basket_id, 0, 0, "ok") EXCEPT
                        !.inflation = Some(Inflation(t)),
                        !.time = Some(now),
                        !.base = t.base,
                        !.index = IF IndexRow(basket_id) # 0
                                  THEN "updated" ELSE "created"]
              ELSE Call("calculate", basket_id, 0, 0, outcome)
        /\ UNCHANGED <<now, prices, baskets, items>>

---------------------------------------------------------------------------
(* The command calculate-inflation of the command line                     *)

\* the entry written by ErrorService.log_error in the command's handler
CliError(t) ==
    [level |-> "ERROR", component |-> "CLI", store_id |-> 0, timestamp |-> t]

\* the command calls the service inside try; `except Exception` logs the
\* error, echoes it to stderr and falls off the end of the function, so the
\* process ends with exit code 0 on every path
CliCalculateInflation(basket_id) ==
    /\ CalculateBasketInflation(basket_id)
    /\ errors' = IF CalcOutcome(basket_id) = "ok" THEN errors
                 ELSE Append(errors, CliError(now))
    /\ cli' = [command |-> "calculate-inflation", exit_code |-> 0,
               stderr |-> CalcOutcome(basket_id) # "ok"]
    /\ UNCHANGED <<jobs, api>>

---------------------------------------------------------------------------
(* KrogerAPI.get_token.  A token is a positive number, 0 is None; the      *)
(* clock counts seconds.  The token endpoint's answer to the exchange is   *)
(* "ok" (status 200, a body with access_token and expires_in), "error" (the *)
(* request fails in transport, or the status is not 200: requests raises a *)
(* RequestException), "no_access_token" or "no_expires_in" (status 200 and  *)
(* a body without that key).                                               *)

ExpiryMargin == 60

\* `self.token and self.token_expiry and datetime.utcnow() < self.token_expiry`
TokenCached ==
    /\ api.token # 0
    /\ IsSome(api.token_expiry)
    /\ now < Get(api.token_expiry)

\* the outcome of the last get_token
TokenCall(contacted, answer, result, token) ==
    [contacted |-> contacted, answer |-> answer, result |-> result,
     token |-> token]

GetToken(answer) ==
    /\ api' =
          IF TokenCached
          THEN [api EXCEPT !.last = TokenCall(FALSE, "none", "returned", api.token)]
          ELSE CASE answer.kind = "ok" ->
                      \* token, then token_expiry, are assigned
                      [token |-> answer.access_token,
                       token_expiry |->
                           Some(now + answer.expires_in - ExpiryMargin),
                       last |-> TokenCall(TRUE, "ok", "returned",
                                          answer.access_token)]
                 [] answer.kind = "no_expires_in" ->
                      \* self.token is assigned, then the lookup of
                      \* "expires_in" raises KeyError
                      [api EXCEPT
                          !.token = answer.access_token,
                          !.last = TokenCall(TRUE, "no_expires_in", "raised", 0)]
                 [] OTHER ->
                      \* RequestException re-raised as Exception, or the
                      \* KeyError of "access_token"
                      [api EXCEPT
                          !.last = TokenCall(TRUE, answer.kind, "raised", 0)]
    /\ UNCHANGED <<now, prices, baskets, items, indices, lastCall, errors,
                   jobs, cli>>

---------------------------------------------------------------------------
(* KrogerAPI.get_product_prices and what its callers iterate               *)

\* the source's answer for one product has a regular price
HasRegularPrice(answer) ==
    answer.has_items /\ IsSome(answer.regular) /\ Get(answer.regular) # 0

\* the dict product_id -> float(regular price) built from the source's
\* answers, one request per product: its (key, value) pairs in insertion
\* order
RECURSIVE GetProductPrices(_)
GetProductPrices(answers) ==
    IF answers = <<>> THEN <<>>
    ELSE LET answer == Head(answers)
         IN  IF HasRegularPrice(answer)
             THEN <<[key |-> answer.productId, value |-> Get(answer.regular)]>>
                      \o GetProductPrices(Tail(answers))
             ELSE GetProductPrices(Tail(answers))

\* an element of prices_data that is a dict: productId (0: no productId),
\* the key "items" and the length of its list, items[0].price.regular (a
\* number, or a text that is no number) and items[0].price.promo
PriceRecord(p, has_items, n, regular, numeric) ==
    [is_dict |-> TRUE, productId |-> p, has_items |-> has_items, items |-> n,
     regular |-> regular, numeric |-> numeric, promo |-> None]

\* an element of prices_data that is no dict: a key of the client's dict
DictKey(p) ==
    [is_dict |-> FALSE, productId |-> p, has_items |-> FALSE, items |-> 0,
     regular |-> None, numeric |-> TRUE, promo |-> None]

\* the client's loop over product_ids calls _make_request for each product
\* outside any try: when the request of product number `timeout` fails
\* (0: none does), its exception leaves get_product_prices
ClientFetch(timeout) == IF timeout # 0 THEN "raises" ELSE "ok"

\* prices_data: the client's dict, or the list of records of an api object
\* that answers with the source's records (the api of test_update_prices)
PricesData(fetch) ==
    IF fetch.via = "client"
    THEN [type |-> "dict", content |-> GetProductPrices(fetch.source)]
    ELSE [type |-> "list", content |-> fetch.source]

\* what `for price_data in prices_data` yields: the elements of a list, the
\* keys of a dict
Elements(prices_data) ==
    IF prices_data.type = "dict"
    THEN [k \in DOMAIN prices_data.content |->
             DictKey(prices_data.content[k].key)]
    ELSE prices_data.content

---------------------------------------------------------------------------
(* PriceUpdateScheduler.  A run of update_prices is a sequence of steps of *)
(* one invoker: StartRun reads the active products, StoreBatch processes   *)
(* one store's batch up to its commit (or its error handler), FinishRun    *)
(* returns.  The error log entry of a failed batch is assumed to be        *)
(* written: log_error itself does not fail.                                *)

\* the rows (product_id, store_id) of BasketItem joined with Basket, for
\* the baskets 1..b: one row per item (the order of the rows is the
\* database's; the table order is taken)
RECURSIVE JoinRows(_)
JoinRows(b) ==
    IF b = 0 THEN <<>>
    ELSE JoinRows(b - 1) \o
         [k \in DOMAIN items[b] |->
             <<items[b][k].product_id, baskets[b].store_id>>]

\* .distinct(): every row once
RECURSIVE Distinct(_)
Distinct(rows) ==
    IF rows = <<>> THEN <<>>
    ELSE LET front == Distinct(SubSeq(rows, 1, Len(rows) - 1))
             row == rows[Len(rows)]
         IN  IF \E i \in DOMAIN front : front[i] = row THEN front
             ELSE Append(front, row)

\* the query without .distinct()
ActiveProductsAllRows == JoinRows(Len(baskets))

\* get_active_products: the distinct (product, store) pairs of all baskets
ActiveProducts == Distinct(JoinRows(Len(baskets)))

\* the keys of store_products
ActiveStores(products) == {products[i][2] : i \in DOMAIN products}

OfStore(store_id, row) == row[2] = store_id

\* store_products[store_id]: the products of the store's rows, in their
\* order
StoreProducts(products, store_id) ==
    LET own == SelectSeq(products, LAMBDA row : OfStore(store_id, row))
    IN  [k \in DOMAIN own |-> own[k][1]]

\* the `continue` tests of the loop over prices_data
SkippedEntry(price_data) ==
    \/ ~ price_data.is_dict
    \/ ~ price_data.has_items
    \/ price_data.productId = 0
    \/ price_data.items = 0
    \/ price_data.regular = None
    \/ (price_data.numeric /\ Get(price_data.regular) = 0)

\* float(regular_price) raises ValueError
MalformedEntry(price_data) ==
    ~ SkippedEntry(price_data) /\ ~ price_data.numeric

\* the loop over prices_data: the rows added to the session, and whether the
\* loop ended in an exception
RECURSIVE SessionAdds(_, _, _)
SessionAdds(data, store_id, t) ==
    IF data = <<>> THEN [rows |-> <<>>, raised |-> FALSE]
    ELSE IF SkippedEntry(Head(data)) THEN SessionAdds(Tail(data), store_id, t)
    ELSE IF MalformedEntry(Head(data)) THEN [rows |-> <<>>, raised |-> TRUE]
    ELSE LET rest == SessionAdds(Tail(data), store_id, t)
         IN  [rows |-> <<PriceHistory(Head(data), store_id, t)>> \o rest.rows,
              raised |-> rest.raised]

\* an entry that is skipped counted as a failure of the batch
BatchFailedOnSkip(fetch, store_id, t) ==
    \/ fetch.fetch = "raises"
    \/ SessionAdds(Elements(PricesData(fetch)), store_id, t).raised
    \/ fetch.commit = "fails"
    \/ \E k \in DOMAIN Elements(PricesData(fetch)) :
           SkippedEntry(Elements(PricesData(fetch))[k])

\* the batch ends in the handler of `except Exception`
BatchFailed(fetch, store_id, t) ==
    \/ fetch.fetch = "raises"
    \/ SessionAdds(Elements(PricesData(fetch)), store_id, t).raised
    \/ fetch.commit = "fails"

\* the rows of the batch that end up committed: by session.commit(), or,
\* when the loop has raised, by the commit of log_error, which runs on the
\* same session before the rollback; none after a failed commit, which has
\* rolled the session back
BatchCommitted(fetch, store_id, t) ==
    IF fetch.fetch = "raises" THEN <<>>
    ELSE LET adds == SessionAdds(Elements(PricesData(fetch)), store_id, t)
         IN  IF adds.raised THEN adds.rows
             ELSE IF fetch.commit = "fails" THEN <<>>
             ELSE adds.rows

\* the entry written by ErrorService.log_error in the batch's handler
SchedulerError(store_id, t) ==
    [level |-> "ERROR", component |-> "SCHEDULER", store_id |-> store_id,
     timestamp |-> t]

\* the stores still to process after a batch, a failure ending the loop
TodoAfterBreak(todo, store_id, failed) ==
    IF failed THEN {} ELSE todo \ {store_id}

\* the stores still to process after a batch: `continue` after a failure
TodoAfter(todo, store_id, failed) == todo \ {store_id}

Batch(store_id, product_ids, fetch, first) ==
    [store_id |-> store_id, product_ids |-> product_ids, fetch |-> fetch.fetch,
     via |-> fetch.via, source |-> fetch.source, commit |-> fetch.commit,
     timeout |-> fetch.timeout, first |-> first]

\* update_prices entered: the active products are read
StartRun(j) ==
    /\ jobs[j].pc = "idle"
    /\ jobs' = [jobs EXCEPT ![j] =
                   [pc |-> "running", products |-> ActiveProducts,
                    todo |-> ActiveStores(ActiveProducts), failed |-> {},
                    runs |-> jobs[j].runs + 1, last |-> NoBatch,
                    data |-> <<>>, session |-> <<>>]]
    /\ UNCHANGED <<now, prices, baskets, items, indices, lastCall, errors, cli, api>>

\* as for update_prices, two observations of one (product, store) pair
\* never carry the same timestamp
FreshRows(rows) ==
    \A k \in DOMAIN rows : \A i \in Ids(prices) :
        ~ (/\ prices[i].product_id = rows[k].product_id
           /\ prices[i].store_id = rows[k].store_id
           /\ prices[i].captured_at = rows[k].captured_at)

\* one pass of the loop over store_products
StoreBatch(j, store_id, fetch) ==
    /\ jobs[j].pc = "running"
    /\ store_id \in jobs[j].todo
    /\ FreshRows(BatchCommitted(fetch, store_id, now))
    /\ prices' = prices \o BatchCommitted(fetch, store_id, now)
    /\ errors' = IF BatchFailed(fetch, store_id, now)
                 THEN Append(errors, SchedulerError(store_id, now))
                 ELSE errors
    /\ jobs' = [jobs EXCEPT
                   ![j].todo = TodoAfter(@, store_id,
                                         BatchFailed(fetch, store_id, now)),
                   ![j].failed = IF BatchFailed(fetch, store_id, now)
                                 THEN @ \cup {store_id} ELSE @,
                   ![j].last = Batch(store_id,
                                     StoreProducts(jobs[j].products, store_id),
                                     fetch, Len(prices))]
    /\ lastCall' = Call("scheduler", 0, 0, 0, "ok")
    /\ UNCHANGED <<now, baskets, items, indices, cli, api>>

(* One pass of the loop over store_products followed entry by entry, for   *)
(* what another session can read while the batch is under way: BeginBatch  *)
(* is the fetch, AddEntry one pass of the loop over prices_data, EndBatch   *)
(* the commit after the loop.                                              *)

\* every add written through to the table at once
SessionAddAutocommit(table, row) == Append(table, row)

\* session.add(price_history): the table as other sessions read it.  The
\* row is pending in the job's session; the session does not autoflush and
\* the loop runs no query, so nothing is sent before the commit
SessionAdd(table, row) == table

BeginBatch(j, store_id, fetch) ==
    /\ jobs[j].pc = "running"
    /\ store_id \in jobs[j].todo
    /\ fetch.fetch = "ok"
    /\ jobs' = [jobs EXCEPT
                   ![j].pc = "adding",
                   ![j].data = Elements(PricesData(fetch)),
                   ![j].session = <<>>,
                   ![j].last = Batch(store_id,
                                     StoreProducts(jobs[j].products, store_id),
                                     fetch, Len(prices))]
    /\ lastCall' = Call("scheduler", 0, 0, 0, "ok")
    /\ UNCHANGED <<now, prices, baskets, items, indices, errors, cli, api>>

\* the batch under way is over: its store is done, in the handler or not
BatchOver(j, failed) ==
    [jobs EXCEPT
        ![j].pc = "running",
        ![j].data = <<>>,
        ![j].session = <<>>,
        ![j].todo = TodoAfter(@, jobs[j].last.store_id, failed),
        ![j].failed = IF failed THEN @ \cup {jobs[j].last.store_id} ELSE @]

AddEntry(j) ==
    /\ jobs[j].pc = "adding"
    /\ jobs[j].data # <<>>
    /\ LET price_data == Head(jobs[j].data)
           store_id == jobs[j].last.store_id
           row == PriceHistory(price_data, store_id, now)
       IN  IF SkippedEntry(price_data)
           THEN /\ jobs' = [jobs EXCEPT ![j].data = Tail(@)]
                /\ UNCHANGED <<prices, errors>>
           ELSE IF MalformedEntry(price_data)
           THEN \* float() raises: the commit of log_error writes the error
                \* and the rows pending in the session
                /\ prices' = prices \o jobs[j].session
                /\ errors' = Append(errors, SchedulerError(store_id, now))
                /\ jobs' = BatchOver(j, TRUE)
           ELSE /\ FreshRows(<<row>>)
                /\ prices' = SessionAdd(prices, row)
                /\ jobs' = [jobs EXCEPT ![j].data = Tail(@),
                                        ![j].session = Append(@, row)]
                /\ UNCHANGED errors
    /\ lastCall' = Call("scheduler", 0, 0, 0, "ok")
    /\ UNCHANGED <<now, baskets, items, indices, cli, api>>

\* session.commit() after the loop; a commit that fails rolls the session
\* back and ends in the handler
EndBatch(j) ==
    /\ jobs[j].pc = "adding"
    /\ jobs[j].data = <<>>
    /\ IF jobs[j].last.commit = "fails"
       THEN /\ UNCHANGED prices
            /\ errors' = Append(errors,
                                SchedulerError(jobs[j].last.store_id, now))
            /\ jobs' = BatchOver(j, TRUE)
       ELSE /\ prices' = prices \o jobs[j].session
            /\ UNCHANGED errors
            /\ jobs' = BatchOver(j, FALSE)
    /\ lastCall' = Call("scheduler", 0, 0, 0, "ok")
    /\ UNCHANGED <<now, baskets, items, indices, cli, api>>

\* the loop is over: update_prices returns
FinishRun(j) ==
    /\ jobs[j].pc = "running"
    /\ jobs[j].todo = {}
    /\ jobs' = [jobs EXCEPT ![j].pc = "idle"]
    /\ UNCHANGED <<now, prices, baskets, items, indices, lastCall, errors, cli, api>>

---------------------------------------------------------------------------
(* The price source's answers and the system                               *)

Entry(p, r) ==
    [productId |-> p, has_items |-> IsSome(r), regular |-> r, promo |-> None]

\* one product per request: a usable or an unusable (0) regular price, or
\* an entry without items
Responses ==
    {<<Entry(p, r)>> : p \in ProductIds, r \in RegularPrices}
        \cup {<<Entry(1, None)>>}

RECURSIVE ItemCount(_)
ItemCount(b) == IF b = 0 THEN 0 ELSE Len(items[b]) + ItemCount(b - 1)

\* the database holds at most MaxRows rows of prices, baskets and items
Rows == Len(prices) + Len(baskets) + ItemCount(Len(baskets))
Room(n) == Rows + n <= MaxRows

\* a basket id the caller may pass: an existing one or one that does not exist
BasketArgs == Ids(baskets) \cup {Len(baskets) + 1}

UpdatePricesCall ==
    \E resp \in Responses :
        /\ Room(Len(AddPrices(<<>>, resp, 1, now)))
        /\ UpdatePrices(1, resp)
        /\ UNCHANGED <<errors, jobs, cli, api>>

CreateBasketCall ==
    /\ Room(1)
    /\ CreateBasket(1)
    /\ UNCHANGED <<errors, jobs, cli, api>>

AddToBasketCall ==
    \E b \in Ids(baskets), p \in ProductIds, q \in Quantities :
        /\ AddOutcome(b, p) = "added" => Room(1)
        /\ AddToBasket(b, p, q)
        /\ UNCHANGED <<errors, jobs, cli, api>>

CalculateCall ==
    \E b \in BasketArgs :
        /\ CalculateBasketInflation(b)
        /\ UNCHANGED <<errors, jobs, cli, api>>

Next ==
    \/ Tick
    \/ UpdatePricesCall
    \/ CreateBasketCall
    \/ AddToBasketCall
    \/ CalculateCall

Spec == Init /\ [][Next]_vars

---------------------------------------------------------------------------
(* A basket close to its capacity: the state after create_basket and       *)
(* MaxItems - 2 calls of add_to_basket with distinct products.  The calls  *)
(* that follow name the next three products and the last one added.        *)

Preloaded == MaxItems - 2

InitFull ==
    /\ now = 0
    /\ prices = <<>>
    /\ baskets = <<[store_id |-> 1, created_at |-> 0, parent_basket_id |-> None]>>
    /\ items = <<[k \in 1..Preloaded |-> [product_id |-> k, quantity |-> 1]]>>
    /\ indices = <<>>
    /\ lastCall = Call("add_to_basket", 1, Preloaded, 1, "added")
    /\ errors = <<>>
    /\ jobs = [j \in Invokers |-> IdleJob]
    /\ cli = NoCommand
    /\ api = NoToken

FullProductIds == Preloaded..(MaxItems + 1)

AddToFullCall ==
    \E b \in BasketArgs, p \in FullProductIds, q \in Quantities :
        /\ AddToBasket(b, p, q)
        /\ UNCHANGED <<errors, jobs, cli, api>>

NextFull == AddToFullCall

SpecFull == InitFull /\ [][NextFull]_vars

---------------------------------------------------------------------------
(* The answers of the price source to the job, and the job in a database   *)
(* with baskets in two stores                                              *)

EntryKinds ==
    {"regular", "negative", "zero", "no_regular", "no_items", "empty_items",
     "no_product", "not_numeric"}

\* the source's record for product p
EntryOf(kind, p) ==
    CASE kind = "regular" -> PriceRecord(p, TRUE, 1, Some(1), TRUE)
      [] kind = "negative" -> PriceRecord(p, TRUE, 1, Some(0 - 1), TRUE)
      [] kind = "zero" -> PriceRecord(p, TRUE, 1, Some(0), TRUE)
      [] kind = "no_regular" -> PriceRecord(p, TRUE, 1, None, TRUE)
      [] kind = "no_items" -> PriceRecord(p, FALSE, 0, None, TRUE)
      [] kind = "empty_items" -> PriceRecord(p, TRUE, 0, None, TRUE)
      [] kind = "no_product" -> PriceRecord(0, TRUE, 1, Some(1), TRUE)
      [] kind = "not_numeric" -> PriceRecord(p, TRUE, 1, Some(1), FALSE)

\* every product with a regular price
Plain(product_ids) ==
    [k \in DOMAIN product_ids |-> EntryOf("regular", product_ids[k])]

\* one record per product requested, at most one of them not plain
RecordLists(product_ids) ==
    {Plain(product_ids)} \cup
    {[Plain(product_ids) EXCEPT ![k] = EntryOf(kind, product_ids[k])] :
         k \in DOMAIN product_ids, kind \in EntryKinds}

\* the source's answers to the client, one per product requested: a regular
\* price or no items
SourceAnswers(product_ids) ==
    {[k \in DOMAIN product_ids |-> Entry(product_ids[k], r[k])] :
         r \in [DOMAIN product_ids -> {None, Some(1)}]}

\* the source's answers when the request of product number k times out or
\* fails in transport: every other product has a regular price
OneTimeout(product_ids, k) ==
    [i \in DOMAIN product_ids |->
        Entry(product_ids[i], IF i = k THEN None ELSE Some(1))]

\* how a batch can go: the fetch raises before any request; an api
\* answering with records, the commit failing or not; the client, every
\* request answered or one of them failing
Fetches(product_ids) ==
    {[fetch |-> "raises", via |-> "client", source |-> <<>>, commit |-> "ok",
      timeout |-> 0]}
    \cup {[fetch |-> "ok", via |-> "records", source |-> l, commit |-> "ok",
           timeout |-> 0] : l \in RecordLists(product_ids)}
    \cup {[fetch |-> "ok", via |-> "records", source |-> Plain(product_ids),
           commit |-> "fails", timeout |-> 0]}
    \cup {[fetch |-> ClientFetch(0), via |-> "client", source |-> a,
           commit |-> "ok", timeout |-> 0] : a \in SourceAnswers(product_ids)}
    \cup {[fetch |-> ClientFetch(k), via |-> "client",
           source |-> OneTimeout(product_ids, k), commit |-> "ok",
           timeout |-> k] : k \in DOMAIN product_ids}

TimerStart ==
    /\ jobs["timer"].runs < MaxRuns
    /\ StartRun("timer")

TimerBatch ==
    \E store_id \in jobs["timer"].todo :
        \E fetch \in Fetches(StoreProducts(jobs["timer"].products, store_id)) :
            StoreBatch("timer", store_id, fetch)

TimerFinish == FinishRun("timer")

\* basket 1 in store 1 with products 1 and 2, basket 2 in store 2 with
\* product 1, basket 3 in store 1 with product 1 again, basket 4 in store 3
\* without items: the state after four create_basket and four add_to_basket
InitRefresh ==
    /\ now = 0
    /\ prices = <<>>
    /\ baskets = <<[store_id |-> 1, created_at |-> 0, parent_basket_id |-> None],
                   [store_id |-> 2, created_at |-> 0, parent_basket_id |-> None],
                   [store_id |-> 1, created_at |-> 0, parent_basket_id |-> None],
                   [store_id |-> 3, created_at |-> 0, parent_basket_id |-> None]>>
    /\ items = <<<<[product_id |-> 1, quantity |-> 1],
                   [product_id |-> 2, quantity |-> 1]>>,
                 <<[product_id |-> 1, quantity |-> 1]>>,
                 <<[product_id |-> 1, quantity |-> 1]>>,
                 <<>>>>
    /\ indices = <<>>
    /\ lastCall = Call("add_to_basket", 3, 1, 1, "added")
    /\ errors = <<>>
    /\ jobs = [j \in Invokers |-> IdleJob]
    /\ cli = NoCommand
    /\ api = NoToken

NextRefresh ==
    \/ Tick
    \/ TimerStart
    \/ TimerBatch
    \/ TimerFinish

SpecRefresh == InitRefresh /\ [][NextRefresh]_vars

---------------------------------------------------------------------------
(* A basket that is changed, cloned and calculated, up to MaxBaskets       *)
(* baskets.  None of the three operations reads the clock for anything but *)
(* created_at and calculated_at, so the clock stands still.                *)

\* basket 1 in store 2 with products 1 and 2: the state after create_basket
\* and two add_to_basket
InitClone ==
    /\ now = 0
    /\ prices = <<>>
    /\ baskets = <<[store_id |-> 2, created_at |-> 0, parent_basket_id |-> None]>>
    /\ items = <<<<[product_id |-> 1, quantity |-> 1],
                   [product_id |-> 2, quantity |-> 1]>>>>
    /\ indices = <<>>
    /\ lastCall = Call("add_to_basket", 1, 2, 1, "added")
    /\ errors = <<>>
    /\ jobs = [j \in Invokers |-> IdleJob]
    /\ cli = NoCommand
    /\ api = NoToken

CloneBasketCall ==
    \E b \in BasketArgs :
        /\ Len(baskets) < MaxBaskets
        /\ CloneBasket(b)
        /\ UNCHANGED <<errors, jobs, cli, api>>

NextClone ==
    \/ AddToBasketCall
    \/ CloneBasketCall
    \/ CalculateCall

SpecClone == InitClone /\ [][NextClone]_vars

---------------------------------------------------------------------------
(* The command line: baskets are created and filled, and the command       *)
(* calculate-inflation is run.  The error log entries count as rows.       *)

CliCalculateCall ==
    \E b \in BasketArgs :
        /\ CalcOutcome(b) # "ok" => Rows + Len(errors) < MaxRows
        /\ CliCalculateInflation(b)

NextCli ==
    \/ Tick
    \/ CreateBasketCall
    \/ AddToBasketCall
    \/ CliCalculateCall

SpecCli == Init /\ [][NextCli]_vars

---------------------------------------------------------------------------
(* The timer's run and a run started by a caller of update_prices, in the  *)
(* same database.  update_prices takes no lock and keeps no flag           *)
(* (scheduler.py 37-44): the steps of the two runs interleave freely.  How *)
(* the runs interleave does not depend on the source's answers: a batch    *)
(* either raises in the fetch or returns every product with a price.       *)

JobFetches(product_ids) ==
    {[fetch |-> "raises", via |-> "client", source |-> <<>>, commit |-> "ok",
      timeout |-> 0],
     [fetch |-> "ok", via |-> "records", source |-> Plain(product_ids),
      commit |-> "ok", timeout |-> 0]}

RunStart(j) ==
    /\ jobs[j].runs < MaxRuns
    /\ StartRun(j)

RunBatch(j) ==
    \E store_id \in jobs[j].todo :
        \E fetch \in JobFetches(StoreProducts(jobs[j].products, store_id)) :
            StoreBatch(j, store_id, fetch)

NextJobs ==
    \/ Tick
    \/ \E j \in Invokers : RunStart(j)
    \/ \E j \in Invokers : RunBatch(j)
    \/ \E j \in Invokers : FinishRun(j)

SpecJobs == InitRefresh /\ [][NextJobs]_vars

---------------------------------------------------------------------------
(* The writers of the price history side by side: update_prices, the runs  *)
(* of the price update job, and create_basket and the calculations that    *)
(* read the history, in a database with one basket.  The job's rows count  *)
(* against MaxRows; a batch raises in the fetch or returns every product   *)
(* with a price.                                                           *)

\* basket 1 in store 1 with product 1: the state after create_basket and
\* add_to_basket
InitHistory ==
    /\ now = 0
    /\ prices = <<>>
    /\ baskets = <<[store_id |-> 1, created_at |-> 0, parent_basket_id |-> None]>>
    /\ items = <<<<[product_id |-> 1, quantity |-> 1]>>>>
    /\ indices = <<>>
    /\ lastCall = Call("add_to_basket", 1, 1, 1, "added")
    /\ errors = <<>>
    /\ jobs = [j \in Invokers |-> IdleJob]
    /\ cli = NoCommand
    /\ api = NoToken

RoomBatch ==
    \E store_id \in jobs["timer"].todo :
        \E fetch \in JobFetches(StoreProducts(jobs["timer"].products, store_id)) :
            /\ Room(Len(BatchCommitted(fetch, store_id, now)))
            /\ StoreBatch("timer", store_id, fetch)

NextHistory ==
    \/ Tick
    \/ UpdatePricesCall
    \/ CreateBasketCall
    \/ CalculateCall
    \/ TimerStart
    \/ RoomBatch
    \/ TimerFinish

SpecHistory == InitHistory /\ [][NextHistory]_vars

---------------------------------------------------------------------------
(* A basket in each of two stores and the price history of their product,  *)
(* with and without promo prices.  The start is the state after            *)
(* update_prices, a tick, two create_basket and two add_to_basket; the     *)
(* clock runs one instant past MaxClock, so that a partition can hold a    *)
(* point before the baskets' creation, one at it and one after it.         *)

Stores == {1, 2}

PromoPrices == {None, Some(3)}

InitStores ==
    /\ now = 1
    /\ prices = <<[product_id |-> 1, store_id |-> 1, price |-> 1,
                   promo_price |-> None, captured_at |-> 0]>>
    /\ baskets = <<[store_id |-> 1, created_at |-> 1, parent_basket_id |-> None],
                   [store_id |-> 2, created_at |-> 1, parent_basket_id |-> None]>>
    /\ items = <<<<[product_id |-> 1, quantity |-> 2]>>,
                 <<[product_id |-> 1, quantity |-> 1]>>>>
    /\ indices = <<>>
    /\ lastCall = Call("add_to_basket", 2, 1, 1, "added")
    /\ errors = <<>>
    /\ jobs = [j \in Invokers |-> IdleJob]
    /\ cli = NoCommand
    /\ api = NoToken

LateTick ==
    /\ now < MaxClock + 1
    /\ now' = now + 1
    /\ UNCHANGED <<prices, baskets, items, indices, lastCall, errors, jobs, cli, api>>

\* update_prices for product 1 at either store
ObservePrice ==
    \E store_id \in Stores, r \in {1, 2}, promo \in PromoPrices :
        /\ Len(prices) < MaxPoints
        /\ UpdatePrices(store_id, <<[Entry(1, Some(r)) EXCEPT !.promo = promo]>>)
        /\ UNCHANGED <<errors, jobs, cli, api>>

NextStores ==
    \/ LateTick
    \/ ObservePrice
    \/ CalculateCall

SpecStores == InitStores /\ [][NextStores]_vars

---------------------------------------------------------------------------
(* Properties of calculate_basket_inflation.  A successful call changes    *)
(* only the index table, so the state after the call still holds the       *)
(* basket, the items and the price points the call has read.               *)

Calculated == lastCall.op = "calculate" /\ lastCall.status = "ok"

\* the rows of (product, basket's store) captured at or before the creation
AtOrBefore(b, product_id) ==
    {i \in Ids(prices) :
        /\ prices[i].product_id = product_id
        /\ prices[i].store_id = baskets[b].store_id
        /\ prices[i].captured_at <= baskets[b].created_at}

\* the item rows of the basket that have such a price point
Resolved(b) ==
    {k \in DOMAIN items[b] : AtOrBefore(b, items[b][k].product_id) # {}}

\* the index row of a basket that has exactly one
TheIndex(b) == indices[CHOOSE i \in Ids(indices) : indices[i].basket_id = b]

HasIndex(b) == \E i \in Ids(indices) : indices[i].basket_id = b

(* C1: in calculate_basket_inflation the base price of every item is the   *)
(* price point of (item.product_id, basket.store_id) with the latest       *)
(* captured_at among those captured at or before basket.created_at.        *)
C1_BaseIsLatestAtOrBefore ==
    Calculated =>
        LET b == lastCall.basket_id
        IN  \A k \in Resolved(b) :
                LET rows == AtOrBefore(b, items[b][k].product_id)
                IN  /\ lastCall.base[k] \in rows
                    /\ \A j \in rows : prices[j].captured_at
                                         <= prices[lastCall.base[k]].captured_at

\* the latest observation of (product, basket's store)
LatestRow(b, product_id) ==
    CHOOSE i \in Ids(prices) :
        /\ prices[i].product_id = product_id
        /\ prices[i].store_id = baskets[b].store_id
        /\ \A j \in Ids(prices) :
              (/\ prices[j].product_id = product_id
               /\ prices[j].store_id = baskets[b].store_id)
                  => prices[j].captured_at <= prices[i].captured_at

\* sum of base_price * quantity over the item rows S, with the base price
\* row the call has selected for each
RECURSIVE BaseValue(_, _)
BaseValue(b, S) ==
    IF S = {} THEN 0
    ELSE LET k == CHOOSE x \in S : TRUE
         IN  prices[lastCall.base[k]].price * items[b][k].quantity
                 + BaseValue(b, S \ {k})

\* sum of current_price * quantity over the item rows S
RECURSIVE CurrentValue(_, _)
CurrentValue(b, S) ==
    IF S = {} THEN 0
    ELSE LET k == CHOOSE x \in S : TRUE
         IN  prices[LatestRow(b, items[b][k].product_id)].price
                     * items[b][k].quantity
                 + CurrentValue(b, S \ {k})

(* C2: for a basket with at least one item that resolves a base price the  *)
(* call returns (total_current / total_base - 1) * 100, the totals being   *)
(* the sums of base_price * quantity and current_price * quantity over     *)
(* exactly the items with a price point at or before basket.created_at.    *)
C2_WeightedRatio ==
    (Calculated /\ Resolved(lastCall.basket_id) # {}) =>
        LET b == lastCall.basket_id
            total_base == BaseValue(b, Resolved(b))
            total_current == CurrentValue(b, Resolved(b))
        IN  /\ \A k \in DOMAIN items[b] :
                   (lastCall.base[k] # 0) <=> (k \in Resolved(b))
            /\ total_base # 0
            /\ Get(lastCall.inflation)
                   = Frac(100 * (total_current - total_base), total_base)

(* C3: calculate_basket_inflation is idempotent: a second call on the same *)
(* basket, with no change to price points, items or baskets since the      *)
(* first, returns the same inflation and leaves the same index record      *)
(* (current_index, base_date).                                             *)
C3_Idempotent ==
    [][(/\ Calculated
        /\ lastCall'.op = "calculate"
        /\ lastCall'.status = "ok"
        /\ lastCall'.basket_id = lastCall.basket_id
        /\ prices' = prices /\ items' = items /\ baskets' = baskets)
          => LET b == lastCall.basket_id
             IN  /\ lastCall'.inflation = lastCall.inflation
                 /\ Len(indices') = Len(indices)
                 /\ IndexRow(b)' = IndexRow(b)
                 /\ indices'[IndexRow(b)].current_index
                        = indices[IndexRow(b)].current_index
                 /\ indices'[IndexRow(b)].base_date
                        = indices[IndexRow(b)].base_date]_vars

\* a basket recalculated, every item with a price point at or before the
\* creation and a later one, and prices that have moved
C3_Witness ==
    /\ Calculated
    /\ lastCall.index = "updated"
    /\ Get(lastCall.inflation) # Zero
    /\ \A k \in DOMAIN items[lastCall.basket_id] :
          /\ k \in Resolved(lastCall.basket_id)
          /\ \E i \in Ids(prices) :
                /\ prices[i].product_id = items[lastCall.basket_id][k].product_id
                /\ prices[i].store_id = baskets[lastCall.basket_id].store_id
                /\ prices[i].captured_at > baskets[lastCall.basket_id].created_at

IndexCount(b) == Cardinality({i \in Ids(indices) : indices[i].basket_id = b})

(* C4: after any sequence of calculations each basket has at most one      *)
(* InflationIndex record: the first successful calculation creates it and  *)
(* every later one replaces the values of that record.                     *)
C4_OneIndexPerBasket ==
    /\ \A b \in Ids(baskets) : IndexCount(b) <= 1
    /\ \A i \in Ids(indices) : indices[i].basket_id \in Ids(baskets)
    /\ Calculated =>
          /\ IndexCount(lastCall.basket_id) = 1
          /\ TheIndex(lastCall.basket_id).calculation_time = Get(lastCall.time)

C4_Witness ==
    /\ Calculated
    /\ lastCall.index = "updated"
    /\ IndexCount(lastCall.basket_id) = 1

(* C5: if no item of a non-empty basket resolves a base price, the call    *)
(* returns exactly 0.0 and persists the index with current_index =         *)
(* base_index = 100.0 and base_date = basket.created_at.                   *)
C5_NothingResolved ==
    (Calculated /\ Resolved(lastCall.basket_id) = {}) =>
        LET b == lastCall.basket_id
        IN  /\ Get(lastCall.inflation) = Zero
            /\ HasIndex(b)
            /\ TheIndex(b).current_index = <<BaseIndex, 1>>
            /\ TheIndex(b).base_index = BaseIndex
            /\ TheIndex(b).base_date = baskets[b].created_at

\* an item whose only price point was captured after the basket's creation
C5_Witness ==
    /\ Calculated
    /\ Resolved(lastCall.basket_id) = {}
    /\ \E k \in DOMAIN items[lastCall.basket_id], i \in Ids(prices) :
          /\ prices[i].product_id = items[lastCall.basket_id][k].product_id
          /\ prices[i].store_id = baskets[lastCall.basket_id].store_id
          /\ prices[i].captured_at > baskets[lastCall.basket_id].created_at

\* the earliest capture time among the base price points selected
MinBaseDate(b) ==
    CHOOSE t \in {prices[lastCall.base[k]].captured_at : k \in Resolved(b)} :
        \A k \in Resolved(b) : t <= prices[lastCall.base[k]].captured_at

(* C6: after a successful call the stored base_date is the minimum         *)
(* captured_at over the base price points selected for the items that      *)
(* resolved one, and basket.created_at when no item resolved.              *)
C6_BaseDateIsMinimum ==
    Calculated =>
        LET b == lastCall.basket_id
        IN  /\ HasIndex(b)
            /\ \A k \in Resolved(b) : lastCall.base[k] # 0
            /\ TheIndex(b).base_date =
                  IF Resolved(b) = {} THEN baskets[b].created_at
                  ELSE MinBaseDate(b)

(* C7: on a basket id that does not exist, or on a basket with no items,   *)
(* the call fails with an error and no InflationIndex record is created    *)
(* or modified.                                                            *)
C7_FatalErrors ==
    [][(/\ lastCall'.op = "calculate"
        /\ now' = now
        /\ \/ lastCall'.basket_id \notin Ids(baskets)
           \/ items[lastCall'.basket_id] = <<>>)
          => /\ lastCall'.status \in {"not_found", "no_items"}
             /\ lastCall'.inflation = None
             /\ indices' = indices]_vars

C7_Witness ==
    /\ lastCall.op = "calculate"
    /\ lastCall.status = "no_items"
    /\ lastCall.basket_id \in Ids(baskets)

---------------------------------------------------------------------------
(* Properties of add_to_basket.  In a step of add_to_basket the clock      *)
(* stands still and lastCall' holds the call's arguments; the unprimed     *)
(* tables are the state the call has found.                                *)

AddStep == lastCall'.op = "add_to_basket" /\ now' = now

(* C8: add_to_basket with a product that is already in the basket sets     *)
(* that item's quantity to the given value and leaves the number of items  *)
(* of the basket and every other item unchanged.                           *)
C8_ReaddSetsQuantity ==
    [][(/\ AddStep
        /\ lastCall'.basket_id \in Ids(baskets)
        /\ ItemRow(items[lastCall'.basket_id], lastCall'.product_id) # 0)
          => LET b == lastCall'.basket_id
                 k == ItemRow(items[b], lastCall'.product_id)
             IN  /\ Len(items'[b]) = Len(items[b])
                 /\ items'[b][k].product_id = lastCall'.product_id
                 /\ items'[b][k].quantity = lastCall'.quantity
                 /\ \A j \in DOMAIN items[b] : j # k => items'[b][j] = items[b][j]
                 /\ \A c \in Ids(baskets) : c # b => items'[c] = items[c]]_vars

(* C9: add_to_basket fails with the capacity error only when the basket    *)
(* holds the maximum number of items and the product is new to it; with a  *)
(* full basket and a product already in it the call succeeds.              *)
C9_CapacityErrorOnlyForNew ==
    (lastCall.op = "add_to_basket" /\ lastCall.status = "full") =>
        /\ Len(items[lastCall.basket_id]) >= MaxItems
        /\ ItemRow(items[lastCall.basket_id], lastCall.product_id) = 0

(* C10: no basket ever holds more than MaxItems distinct items: a new      *)
(* product is added while the basket holds fewer (the MaxItems-th add      *)
(* succeeds), and with MaxItems items the call raises the capacity error   *)
(* and leaves the items unchanged.                                         *)
C10_AtMostMaxItems ==
    [][/\ \A b \in Ids(baskets') :
             /\ Len(items'[b]) <= MaxItems
             /\ Cardinality({items'[b][k].product_id : k \in DOMAIN items'[b]})
                   = Len(items'[b])
       /\ (/\ AddStep
           /\ lastCall'.basket_id \in Ids(baskets)
           /\ ItemRow(items[lastCall'.basket_id], lastCall'.product_id) = 0)
             => LET b == lastCall'.basket_id
                IN  IF Len(items[b]) < MaxItems
                    THEN /\ lastCall'.status = "added"
                         /\ Len(items'[b]) = Len(items[b]) + 1
                         /\ ItemRow(items'[b], lastCall'.product_id) # 0
                    ELSE /\ lastCall'.status = "full"
                         /\ items' = items]_vars

\* a new product refused by a basket that holds MaxItems items
C10_Witness ==
    /\ lastCall.op = "add_to_basket"
    /\ lastCall.status = "full"
    /\ Len(items[lastCall.basket_id]) = MaxItems
    /\ ItemRow(items[lastCall.basket_id], lastCall.product_id) = 0

---------------------------------------------------------------------------
(* Properties of the price update job.  A step of the timer's run that     *)
(* processes one store's batch takes stores out of todo; the rows it       *)
(* commits are the rows of prices' beyond prices.                          *)

BatchStep ==
    /\ jobs["timer"].pc = "running"
    /\ jobs'["timer"].pc = "running"
    /\ jobs'["timer"].todo # jobs["timer"].todo

FinishStep == jobs["timer"].pc = "running" /\ jobs'["timer"].pc = "idle"

\* the batch of the step, and whether it ended in the error handler
TheBatch == jobs'["timer"].last

BatchHasFailed == jobs'["timer"].last.store_id \in jobs'["timer"].failed

NewRows == SubSeq(prices', Len(prices) + 1, Len(prices'))

\* an entry of prices_data with a product id, a first item and a regular
\* price
Priced(e) ==
    /\ e.is_dict /\ e.has_items /\ e.items > 0 /\ e.productId # 0
    /\ IsSome(e.regular) /\ Get(e.regular) # 0

\* one price point per priced entry, in the entries' order
PricePoints(data, store_id, t) ==
    LET priced == SelectSeq(data, Priced)
    IN  [k \in DOMAIN priced |->
            [product_id |-> priced[k].productId, store_id |-> store_id,
             price |-> Get(priced[k].regular), promo_price |-> None,
             captured_at |-> t]]

\* the entries the batch's loop has seen
Returned(batch) == Elements(PricesData(batch))

C13_FailedBatchCommitsNothing ==
    [][(BatchStep /\ BatchHasFailed) => prices' = prices]_vars

\* something goes wrong in the batch: the fetch raises, the commit fails, or
\* an entry carries a regular price that is no number
Faulted(batch) ==
    \/ batch.fetch = "raises"
    \/ batch.commit = "fails"
    \/ \E k \in DOMAIN Returned(batch) :
           Priced(Returned(batch)[k]) /\ ~ Returned(batch)[k].numeric

(* C14: in a batch where nothing goes wrong, entries without items, with   *)
(* an empty items list or without a regular price are skipped: the batch   *)
(* does not fail, no error log entry is written, and the other entries'    *)
(* price points are committed.                                             *)
C14_SkipsAreSilent ==
    [][(BatchStep /\ ~ Faulted(TheBatch)) =>
           /\ ~ BatchHasFailed
           /\ errors' = errors
           /\ NewRows = PricePoints(Returned(TheBatch), TheBatch.store_id, now)]_vars

\* the last batch held one entry without a usable price and one with a
\* price: one price point, no error entry
C14_Witness ==
    LET batch == jobs["timer"].last
    IN  /\ batch.via = "records"
        /\ Len(batch.source) = 2
        /\ \E k \in DOMAIN batch.source :
               \/ ~ batch.source[k].has_items
               \/ batch.source[k].items = 0
               \/ batch.source[k].regular = None
        /\ batch.store_id \notin jobs["timer"].failed
        /\ Len(prices) = batch.first + 1
        /\ errors = <<>>

\* the source's answer for one product carries a usable regular price
AnswerHasPrice(answer) ==
    answer.has_items /\ IsSome(answer.regular) /\ Get(answer.regular) > 0

\* one price point per answer with a usable regular price
AnswerPoints(answers, store_id, t) ==
    LET priced == SelectSeq(answers, AnswerHasPrice)
    IN  [k \in DOMAIN priced |->
            [product_id |-> priced[k].productId, store_id |-> store_id,
             price |-> Get(priced[k].regular), promo_price |-> None,
             captured_at |-> t]]

(* C15: a batch fetched through the client's get_product_prices that does  *)
(* not fail appends exactly one price point per product for which the      *)
(* source returned a usable regular price, with that price and the         *)
(* batch's store id.                                                       *)
C15_OnePointPerPricedProduct ==
    [][(BatchStep /\ ~ BatchHasFailed /\ TheBatch.via = "client") =>
           NewRows = AnswerPoints(TheBatch.source, TheBatch.store_id, now)]_vars

(* C17: every price point in the price history has a price above 0.        *)
C17_PricesPositive ==
    \A i \in Ids(prices) : prices[i].price > 0

(* C16: at most one run of the price update job is in flight: the timer's  *)
(* run and a caller's run are never both inside _update_prices.            *)
C16_OneRunInFlight ==
    ~ (jobs["timer"].pc = "running" /\ jobs["caller"].pc = "running")

---------------------------------------------------------------------------
(* Properties of the baskets and of the command line                       *)

\* a step of a successful clone_basket: the new basket is the last one
CloneStep ==
    /\ lastCall'.op = "clone_basket"
    /\ lastCall'.status = "ok"
    /\ Len(baskets') = Len(baskets) + 1

(* C11: clone_basket of a basket with N items creates a basket in the same *)
(* store, with parent_basket_id the source's id and N items, one per item  *)
(* of the source with its product and its quantity; no basket gets an      *)
(* index row in that step, and the first index row of a basket appears     *)
(* only in a calculation of that basket.                                   *)
C11_CloneCopiesItems ==
    [][/\ CloneStep =>
             LET source == lastCall'.basket_id
                 clone == Len(baskets')
             IN  /\ baskets'[clone].store_id = baskets[source].store_id
                 /\ baskets'[clone].parent_basket_id = Some(source)
                 /\ Len(items'[clone]) = Len(items[source])
                 /\ \A k \in DOMAIN items[source] :
                       /\ items'[clone][k].product_id = items[source][k].product_id
                       /\ items'[clone][k].quantity = items[source][k].quantity
                 /\ \A b \in Ids(baskets) :
                       baskets'[b] = baskets[b] /\ items'[b] = items[b]
                 /\ indices' = indices
                 /\ \A i \in Ids(indices) : indices[i].basket_id # clone
       /\ \A b \in Ids(baskets') :
             (~ HasIndex(b) /\ HasIndex(b)') =>
                 /\ lastCall'.op = "calculate"
                 /\ lastCall'.basket_id = b
                 /\ lastCall'.status = "ok"]_vars

\* basket 2 is the clone of basket 1, taken after basket 1 was calculated
\* and after its quantities were changed: two items, the quantities of the
\* source, no index of its own
C11_Witness ==
    /\ lastCall.op = "clone_basket"
    /\ lastCall.status = "ok"
    /\ Len(baskets) = 2
    /\ baskets[2].parent_basket_id = Some(1)
    /\ baskets[2].store_id = 2
    /\ Len(items[2]) = 2
    /\ items[1][1].quantity = 2
    /\ items[2] = items[1]
    /\ HasIndex(1)
    /\ ~ HasIndex(2)

(* C19: every basket item has a quantity of at least 1.                    *)
C19_QuantityAtLeastOne ==
    \A b \in Ids(items) : \A k \in DOMAIN items[b] : items[b][k].quantity >= 1

(* C20: the command calculate-inflation ends with exit code 0 exactly when *)
(* the calculation has succeeded, and with another exit code when the      *)
(* basket is not found or is empty.                                        *)
C20_ExitCode ==
    (cli.command = "calculate-inflation" /\ lastCall.op = "calculate") =>
        (cli.exit_code = 0 <=> lastCall.status = "ok")

(* C18: the price history is append-only: no step of a job run, of        *)
(* update_prices, of a basket operation or of a calculation changes or     *)
(* removes a price point that is in the history.                           *)
C18_AppendOnly ==
    [][/\ Len(prices') >= Len(prices)
       /\ \A i \in Ids(prices) : prices'[i] = prices[i]]_vars

\* update_prices has written a price for product 1 in store 1, the basket
\* was calculated, and a run of the job has appended a second, different
\* price for the same product and store
C18_Witness ==
    /\ Len(prices) = 2
    /\ prices[1].product_id = prices[2].product_id
    /\ prices[1].store_id = prices[2].store_id
    /\ prices[1].price # prices[2].price
    /\ jobs["timer"].last.first = 1
    /\ jobs["timer"].pc = "idle"
    /\ HasIndex(1)

---------------------------------------------------------------------------
(* More properties of calculate_basket_inflation                           *)

\* the item rows for which the call has selected a base price
Counted(b) == {k \in DOMAIN items[b] : lastCall.base[k] # 0}

(* C21: the current price of every item the call counts is the price point *)
(* of (item.product_id, basket.store_id) with the greatest captured_at,    *)
(* before or after the basket's creation: the prices selected are points   *)
(* of the basket's store, and the inflation returned is the one of the     *)
(* base prices selected and of these latest points, whatever other stores' *)
(* points and intermediate points the history holds.                       *)
C21_CurrentIsLatest ==
    Calculated =>
        LET b == lastCall.basket_id
            total_base == BaseValue(b, Counted(b))
            total_current == CurrentValue(b, Counted(b))
        IN  /\ \A k \in Counted(b) :
                   /\ prices[lastCall.base[k]].product_id = items[b][k].product_id
                   /\ prices[lastCall.base[k]].store_id = baskets[b].store_id
            /\ Get(lastCall.inflation) =
                   IF total_base = 0 THEN Zero
                   ELSE Frac(100 * (total_current - total_base), total_base)

\* the basket's partition holds three points, the latest one captured
\* after the basket's creation and priced unlike the one before it, the
\* other store holds no point, and the call has returned an inflation
C21_Witness ==
    /\ Calculated
    /\ Len(prices) = 3
    /\ \A i \in Ids(prices) : prices[i].store_id = 1 /\ prices[i].captured_at = i - 1
    /\ prices[2].price = 2
    /\ prices[3].price = 1
    /\ lastCall.basket_id = 1
    /\ Get(lastCall.inflation) = Zero

(* C22: after a successful call the basket's index record has base_index   *)
(* 100, current_index 100 + the inflation the call has returned, and the   *)
(* calculation time the call has returned.                                 *)
C22_IndexMatchesResult ==
    Calculated =>
        LET b == lastCall.basket_id
        IN  /\ HasIndex(b)
            /\ TheIndex(b).base_index = 100
            /\ TheIndex(b).current_index = FracAdd(100, Get(lastCall.inflation))
            /\ TheIndex(b).calculation_time = Get(lastCall.time)

\* a record replaced at a later time than it was created, by a call that
\* has returned an inflation other than 0
C22_Witness ==
    /\ Calculated
    /\ lastCall.index = "updated"
    /\ Get(lastCall.inflation) = <<100, 1>>
    /\ TheIndex(lastCall.basket_id).current_index = <<200, 1>>
    /\ Get(lastCall.time) = MaxClock + 1

\* a step of calculate_basket_inflation
CalculateStep == lastCall'.op = "calculate" /\ now' = now

(* C23: a call of calculate_basket_inflation leaves the price points, the  *)
(* baskets, the items and the index records of the other baskets as they   *)
(* are; it creates or replaces at most the one record of its basket.       *)
C23_OnlyOwnIndex ==
    [][CalculateStep =>
           /\ prices' = prices
           /\ baskets' = baskets
           /\ items' = items
           /\ Len(indices') \in {Len(indices), Len(indices) + 1}
           /\ \A i \in Ids(indices) :
                 /\ indices'[i].basket_id = indices[i].basket_id
                 /\ indices[i].basket_id # lastCall'.basket_id =>
                        indices'[i] = indices[i]
           /\ \A i \in Ids(indices') \ Ids(indices) :
                 indices'[i].basket_id = lastCall'.basket_id
           /\ lastCall'.status # "ok" => indices' = indices]_vars

\* both baskets have a record, the one of basket 2 has just been replaced,
\* and the history holds points of both stores
C23_Witness ==
    /\ Calculated
    /\ lastCall.basket_id = 2
    /\ lastCall.index = "updated"
    /\ HasIndex(1)
    /\ TheIndex(1).calculation_time < TheIndex(2).calculation_time
    /\ \E i \in Ids(prices) : prices[i].store_id = 2

\* the first point in capture order of the rows at or before the creation
Oldest(b, product_id) ==
    CHOOSE i \in AtOrBefore(b, product_id) :
        \A j \in AtOrBefore(b, product_id) :
            prices[i].captured_at <= prices[j].captured_at

(* C27: the result of calculate_basket_inflation is a function of the      *)
(* product, store, price and capture time of the price points and of the   *)
(* items alone: the base rows are selected by capture time, and inflation, *)
(* current_index and base_date follow from the regular prices, whatever    *)
(* promo_price the points carry.                                           *)
C27_PromoIgnored ==
    Calculated =>
        LET b == lastCall.basket_id
            total_base == BaseValue(b, Resolved(b))
            total_current == CurrentValue(b, Resolved(b))
            inflation == IF total_base = 0 THEN Zero
                         ELSE Frac(100 * (total_current - total_base), total_base)
        IN  /\ \A k \in DOMAIN items[b] :
                   lastCall.base[k] =
                       IF k \in Resolved(b)
                       THEN Oldest(b, items[b][k].product_id) ELSE 0
            /\ Get(lastCall.inflation) = inflation
            /\ TheIndex(b).current_index = FracAdd(100, inflation)
            /\ TheIndex(b).base_date =
                   IF total_base = 0 THEN baskets[b].created_at
                   ELSE MinBaseDate(b)

\* the latest point of basket 1's product carries a promo price, and the
\* call has returned the change of the regular price
C27_Witness ==
    /\ Calculated
    /\ lastCall.basket_id = 1
    /\ Len(prices) = 2
    /\ prices[2].store_id = 1
    /\ prices[2].price = 2
    /\ prices[2].promo_price = Some(3)
    /\ Get(lastCall.inflation) = <<100, 1>>

---------------------------------------------------------------------------
(* More properties of the price update job                                 *)

StartStep == jobs["timer"].pc = "idle" /\ jobs'["timer"].pc = "running"

\* the products referenced by items of baskets of the store
ReferencedAt(store_id) ==
    UNION {{items[b][k].product_id : k \in DOMAIN items[b]} :
              b \in {c \in Ids(baskets) : baskets[c].store_id = store_id}}

\* the stores that own a basket with an item
StoresWithItems ==
    {baskets[b].store_id : b \in {c \in Ids(baskets) : items[c] # <<>>}}

(* C24: a run of the job queries the source once for every store that owns *)
(* a basket with an item, and for no other: the stores to query are fixed  *)
(* when the run starts, each batch takes one of them, and the run ends     *)
(* when none is left; the product list of a query names every product      *)
(* referenced by items of the store's baskets, each once, and no other.    *)
C24_OneQueryPerStore ==
    [][/\ StartStep => jobs'["timer"].todo = StoresWithItems
       /\ BatchStep =>
             /\ TheBatch.store_id \in jobs["timer"].todo
             /\ jobs'["timer"].todo = jobs["timer"].todo \ {TheBatch.store_id}
             /\ {TheBatch.product_ids[i] : i \in DOMAIN TheBatch.product_ids}
                    = ReferencedAt(TheBatch.store_id)
             /\ Len(TheBatch.product_ids)
                    = Cardinality(ReferencedAt(TheBatch.store_id))
       /\ FinishStep => jobs["timer"].todo = {}]_vars

\* the run is over; store 1, where two baskets reference product 1, was
\* queried last, for products 1 and 2
C24_Witness ==
    /\ jobs["timer"].pc = "idle"
    /\ jobs["timer"].runs = 1
    /\ jobs["timer"].last.store_id = 1
    /\ jobs["timer"].last.product_ids = <<1, 2>>
    /\ \E b \in Ids(baskets), c \in Ids(baskets) :
          /\ b # c
          /\ baskets[b].store_id = 1 /\ baskets[c].store_id = 1
          /\ \E k \in DOMAIN items[b], l \in DOMAIN items[c] :
                items[b][k].product_id = 1 /\ items[c][l].product_id = 1
    /\ \E b \in Ids(baskets) : items[b] = <<>> /\ baskets[b].store_id = 3

(* C25: when the request for one product of a store's batch times out or  *)
(* fails in transport, the batch does not fail, and the other products of  *)
(* the batch that returned a usable price get their price points.          *)
C25_TimeoutIsSkipped ==
    [][(BatchStep /\ TheBatch.timeout # 0) =>
           /\ ~ BatchHasFailed
           /\ NewRows = AnswerPoints(TheBatch.source, TheBatch.store_id, now)]_vars

\* one of the two baskets is the clone of the other
CloneOf(x, y) ==
    \/ baskets[x].parent_basket_id = Some(y)
    \/ baskets[y].parent_basket_id = Some(x)

\* the index record of a basket, if it has one
IndexOf(b) ==
    IF IndexRow(b) # 0 THEN Some(indices[IndexRow(b)]) ELSE None

---------------------------------------------------------------------------
(* Refresh runs after a basket's creation.  Basket 1 exists and has no     *)
(* price point; the timer's run and a caller's run each fetch its store    *)
(* once, at the instant of the creation or later, and the source's price   *)
(* is 1 or 2; the basket is calculated in between.  The clock runs one     *)
(* instant past MaxClock, so that both runs can come after the creation.   *)

Regulars == {1, 2}

\* every product with the regular price r
AllAt(product_ids, r) ==
    [k \in DOMAIN product_ids |->
        PriceRecord(product_ids[k], TRUE, 1, Some(r), TRUE)]

LaterFetches(product_ids) ==
    {[fetch |-> "ok", via |-> "records", source |-> AllAt(product_ids, r),
      commit |-> "ok", timeout |-> 0] : r \in Regulars}

LaterBatch(j) ==
    \E store_id \in jobs[j].todo :
        \E fetch \in LaterFetches(StoreProducts(jobs[j].products, store_id)) :
            /\ Len(prices) + Len(BatchCommitted(fetch, store_id, now)) <= MaxPoints
            /\ StoreBatch(j, store_id, fetch)

NextLater ==
    \/ LateTick
    \/ \E j \in Invokers : RunStart(j)
    \/ \E j \in Invokers : LaterBatch(j)
    \/ \E j \in Invokers : FinishRun(j)
    \/ CalculateCall

SpecLater == InitHistory /\ [][NextLater]_vars

\* a pass of a run of the job that has committed price points
RefreshStep == lastCall'.op = "scheduler" /\ Len(prices') > Len(prices)

\* the price points the calculation of basket b reads were all captured
\* after the basket's creation
AllLater(b) ==
    \A i \in AllPrices(b) : prices[i].captured_at > baskets[b].created_at

---------------------------------------------------------------------------
(* The token cache of one KrogerAPI object over time: get_token is called  *)
(* again and again while the clock advances in steps of the margin, up to  *)
(* the longest lifetime of a token.                                        *)

Tokens == {1, 2}

Lifetimes == {ExpiryMargin, 2 * ExpiryMargin, 3 * ExpiryMargin}

ExchangeAnswers ==
    {[kind |-> "ok", access_token |-> t, expires_in |-> e] :
         t \in Tokens, e \in Lifetimes}
    \cup {[kind |-> "no_expires_in", access_token |-> t, expires_in |-> 0] :
             t \in Tokens}
    \cup {[kind |-> k, access_token |-> 0, expires_in |-> 0] :
             k \in {"error", "no_access_token"}}

TokenTick ==
    /\ now < ExpiryMargin * (MaxClock + 2)
    /\ now' = now + ExpiryMargin
    /\ UNCHANGED <<prices, baskets, items, indices, lastCall, errors, jobs,
                   cli, api>>

GetTokenCall == \E answer \in ExchangeAnswers : GetToken(answer)

NextToken == TokenTick \/ GetTokenCall

SpecToken == Init /\ [][NextToken]_vars

\* a step of get_token (a call that changes nothing at all is a stuttering
\* step, for which the property below asks nothing)
GetTokenStep == api' # api

(* C28: get_token contacts the token endpoint only when no token is cached *)
(* or the time has reached the stored expiry, which a successful exchange  *)
(* sets 60 seconds before the token's real expiry; otherwise it returns    *)
(* the cached token and leaves the cache as it is; an exchange that fails  *)
(* raises and leaves token and expiry as they were.                        *)
C28_TokenCache ==
    [][GetTokenStep =>
          LET fresh == /\ api.token # 0
                       /\ api.token_expiry # None
                       /\ now < Get(api.token_expiry)
              last == api'.last
          IN  /\ last.contacted <=> ~ fresh
              /\ fresh =>
                    /\ last.result = "returned"
                    /\ last.token = api.token
                    /\ api'.token = api.token
                    /\ api'.token_expiry = api.token_expiry
              /\ (last.contacted /\ last.answer = "ok") =>
                    /\ last.result = "returned"
                    /\ api'.token = last.token
                    /\ \E e \in Lifetimes :
                          api'.token_expiry = Some(now + e - 60)
              /\ (last.contacted /\ last.answer # "ok") =>
                    /\ last.result = "raised"
                    /\ api'.token = api.token
                    /\ api'.token_expiry = api.token_expiry]_vars

---------------------------------------------------------------------------
(* A calculation beside a run of the job.  Basket 1 of store 1 holds       *)
(* products 1 and 2 and product 1 has a price point from before the        *)
(* basket's creation; the timer's run processes the store's batch entry by *)
(* entry while the clock advances and the basket is calculated, each in a  *)
(* session of its own.                                                     *)

InitSnapshot ==
    /\ now = 1
    /\ prices = <<[product_id |-> 1, store_id |-> 1, price |-> 1,
                   promo_price |-> None, captured_at |-> 0]>>
    /\ baskets = <<[store_id |-> 1, created_at |-> 1, parent_basket_id |-> None]>>
    /\ items = <<<<[product_id |-> 1, quantity |-> 1],
                   [product_id |-> 2, quantity |-> 1]>>>>
    /\ indices = <<>>
    /\ lastCall = Call("add_to_basket", 1, 2, 1, "added")
    /\ errors = <<>>
    /\ jobs = [j \in Invokers |-> IdleJob]
    /\ cli = NoCommand
    /\ api = NoToken

TimerBegin ==
    \E store_id \in jobs["timer"].todo :
        \E fetch \in Fetches(StoreProducts(jobs["timer"].products, store_id)) :
            BeginBatch("timer", store_id, fetch)

TimerAdd ==
    /\ Len(prices) + Len(jobs["timer"].session) < MaxPoints
    /\ AddEntry("timer")

TimerEnd == EndBatch("timer")

NextSnapshot ==
    \/ LateTick
    \/ TimerStart
    \/ TimerBegin
    \/ TimerAdd
    \/ TimerEnd
    \/ TimerFinish
    \/ CalculateCall

SpecSnapshot == InitSnapshot /\ [][NextSnapshot]_vars

\* the batch of the timer's run is under way
UnderWay == jobs["timer"].pc = "adding"

(* C26: a calculation beside a refresh run reads none of the price points  *)
(* of a batch that is under way, and the points a batch writes become      *)
(* readable all in one step: while a batch is under way the table holds    *)
(* the rows it held when the batch began, a calculation in that time uses  *)
(* none of the batch's points, and the step that ends the batch appends    *)
(* every point pending in its session or none.                             *)
C26_AllOrNone ==
    [][/\ UnderWay' => Len(prices') = jobs'["timer"].last.first
       /\ (UnderWay /\ ~ UnderWay') =>
             NewRows \in {jobs["timer"].session, <<>>}
       /\ (UnderWay /\ lastCall'.op = "calculate" /\ lastCall'.status = "ok") =>
             \A k \in DOMAIN lastCall'.base :
                 lastCall'.base[k] <= jobs["timer"].last.first]_vars

\* basket 1 calculated while the batch of its store is half way: the point
\* of product 1 is pending in the job's session, the record of product 2 is
\* still to come, and the calculation has read the one committed row
C26_Witness ==
    /\ Calculated
    /\ lastCall.basket_id = 1
    /\ UnderWay
    /\ Len(jobs["timer"].session) = 1
    /\ Len(jobs["timer"].data) = 1
    /\ jobs["timer"].session[1].product_id = 1
    /\ Len(prices) = 1
    /\ lastCall.base = <<1, 0>>

=============================================================================
